---- MODULE Spec2Model ----
(***************************************************************************)
(* Right-Aligned Code (evvic/right-aligned-code): a VS Code extension that *)
(* rewrites the leading whitespace of every line of a document.            *)
(*                                                                         *)
(* The repository holds four variants of the same idea:                    *)
(*   "ext"  src/src/extension.ts      raw line length, lastMax skip        *)
(*   "p0"   src/unnamed/part_000      content-aware, selections restored   *)
(*   "p1"   src/unnamed/part_001:1-119  content-aware, needsRerun flag     *)
(*   "cmd"  src/unnamed/part_001:120-309  align / unalign commands, live   *)
(*          change listener without debounce, Fibonacci widths             *)
(*                                                                         *)
(* Lines are sequences of one-character strings; line numbers and columns  *)
(* are 0-based as in the editor API, so line i of a document is lines[i+1].*)
(***************************************************************************)
EXTENDS Integers, Sequences, FiniteSets, TLC

\* ------------------------------------------------------------------ bounds
MaxLines == 2
MaxLen == 2
MaxDepth == 12

\* -------------------------------------------------------------- variables
VARIABLES
    \* one alignment pass at a time on one document (SpecPass): the variant, the
    \* lines and selections now and before the last pass, the edit set the last
    \* pass computed, the batch edits issued and the passes run so far
    pVariant, pText, pSel, pPrevText, pPrevSel, pEdits, pIssued, pPasses,
    \* getFibonacciSpacesForDepth and fibonacci (SpecFib): the argument, the
    \* position in the code, fibonacci's n, i, a, b and the value returned
    fDepth, fPc, fN, fI, fA, fB, fRet,
    \* the live extension (Spec): which variant is installed
    variant,
    \* per document: its lines, the selections of its editor, and whether an
    \* editor shows it ("shown"), none does ("hidden") or it is closed ("closed")
    text, selections, docState,
    \* const timers = new Map(): uri -> timer id (0: no entry)
    timers,
    \* the timers setTimeout has armed and that have neither fired nor been cleared
    hostTimers,
    \* let isApplyingEdits, let needsRerun (part_001), const lastMax = new Map()
    isApplyingEdits, needsRerun, lastMax,
    \* the passes awaiting editor.edit, oldest first
    inflight,
    \* inputs of the environment so far, and the documents the user has edited
    envSteps, userEdited,
    \* how the pass that ended last ended: "skipped" (no editor), "noedits",
    \* "applied", "rejected" (editor.edit resolved to false), "failed" (it threw)
    \* or "unrestored" (part_000: restoring the selections threw)
    lastOutcome,
    \* the command variant: the document alignDocument was last called on, its lines
    \* before the call, the calls of unalignDocument since (document "none": no
    \* call), and whether each call was made with nothing in flight and nothing
    \* else has changed the document or closed its editor since ("clean")
    alignLog,
    \* the command variant: the document unalignDocument was last called on and its
    \* lines before the call (document "none": no call), and whether the call was
    \* made with nothing in flight and neither the user nor another command has
    \* touched the document since ("clean")
    unalignLog

passVars == <<pVariant, pText, pSel, pPrevText, pPrevSel, pEdits, pIssued, pPasses>>
fibVars == <<fDepth, fPc, fN, fI, fA, fB, fRet>>
liveVars == <<variant, text, selections, docState, timers, hostTimers,
              isApplyingEdits, needsRerun, lastMax, inflight, envSteps, userEdited,
              lastOutcome, alignLog, unalignLog>>
vars == <<passVars, fibVars, liveVars>>

\* --------------------------------------------------------- text helpers
Max2(a, b) == IF a > b THEN a ELSE b
Min2(a, b) == IF a < b THEN a ELSE b

\* ' '.repeat(n)
Spaces(n) == [i \in 1..n |-> " "]

\* the characters /\s/ matches, among those the model uses
IsWhitespace(c) == c \in {" ", "\t"}

\* text.match(/^\s*/)?.[0]?.length || 0
Leading(t) ==
    IF \A i \in 1..Len(t) : IsWhitespace(t[i])
    THEN Len(t)
    ELSE (CHOOSE i \in 1..Len(t) :
            /\ ~IsWhitespace(t[i])
            /\ \A j \in 1..(i - 1) : IsWhitespace(t[j])) - 1

\* const contentLen = text.length - leading
ContentLen(t) == Len(t) - Leading(t)

\* the text after the leading whitespace
Content(t) == SubSeq(t, Leading(t) + 1, Len(t))

\* document.lineAt(i).text
LineAt(lines, i) == lines[i + 1]

\* the loop "if (len > maxLen) maxLen = len" over raw line lengths
RECURSIVE MaxLenUpTo(_, _)
MaxLenUpTo(lines, k) ==
    IF k = 0 THEN 0
    ELSE LET m == MaxLenUpTo(lines, k - 1)
         IN  IF Len(lines[k]) > m THEN Len(lines[k]) ELSE m

MaxLineLen(lines) == MaxLenUpTo(lines, Len(lines))

\* the loop "if (contentLen > maxContentLen) maxContentLen = contentLen"
RECURSIVE MaxContentUpTo(_, _)
MaxContentUpTo(lines, k) ==
    IF k = 0 THEN 0
    ELSE LET m == MaxContentUpTo(lines, k - 1)
             c == ContentLen(lines[k])
         IN  IF c > m THEN c ELSE m

\* a faulty maximum: the longest line measured with its leading whitespace
MaxContentLenRaw(lines) == MaxLineLen(lines)

MaxContentLen(lines) == MaxContentUpTo(lines, Len(lines))

\* ------------------------------------------------ selections and positions
\* vscode.Position(line, character)
Pos(l, c) == [line |-> l, character |-> c]

\* vscode.Selection(start, end) built from two ordered positions
Selection(a, b) == [start |-> a, end |-> b]

PosLeq(a, b) == a.line < b.line \/ (a.line = b.line /\ a.character <= b.character)

\* every position of a document
Positions(lines) ==
    {p \in [line : 0..(Len(lines) - 1), character : 0..MaxLineLen(lines)] :
        p.character <= Len(LineAt(lines, p.line))}

\* the selections of a document the model draws from: every caret, every range
\* within one line, and the whole document
SelectionsOf(lines) ==
    {s \in [start : Positions(lines), end : Positions(lines)] :
        /\ PosLeq(s.start, s.end)
        /\ \/ s.start.line = s.end.line
           \/ /\ s.start = Pos(0, 0)
              /\ s.end = Pos(Len(lines) - 1, Len(lines[Len(lines)]))}

\* ------------------------------------------- the content-aware pass
\* const desiredLeading = Math.max(0, maxContentLen - contentLen)
DesiredLeading(maxContentLen, contentLen) == Max2(0, maxContentLen - contentLen)

\* desiredLeadingByLine: line number -> desired leading width
DesiredLeadingByLine(lines) ==
    [i \in 0..(Len(lines) - 1) |->
        DesiredLeading(MaxContentLen(lines), ContentLen(LineAt(lines, i)))]

\* An edit replaces columns [from, to) of its line by n spaces:
\*   new vscode.Range(i, 0, i, leading), ' '.repeat(desiredLeading)
Edit(i, f, t, k) == [line |-> i, from |-> f, to |-> t, n |-> k]

\* a faulty edit set: one edit for every line, without "leading !== desiredLeading"
ContentEditsAllLines(lines) ==
    {Edit(i, 0, Leading(LineAt(lines, i)), DesiredLeadingByLine(lines)[i]) :
        i \in 0..(Len(lines) - 1)}

\* a faulty edit set: the range of each edit is the whole line
ContentEditsWholeLine(lines) ==
    {Edit(i, 0, Len(LineAt(lines, i)), DesiredLeadingByLine(lines)[i]) :
        i \in {j \in 0..(Len(lines) - 1) :
                 Leading(LineAt(lines, j)) # DesiredLeadingByLine(lines)[j]}}

\* the loop that fills "edits": only lines with leading !== desiredLeading
ContentEdits(lines) ==
    {Edit(i, 0, Leading(LineAt(lines, i)), DesiredLeadingByLine(lines)[i]) :
        i \in {j \in 0..(Len(lines) - 1) :
                 Leading(LineAt(lines, j)) # DesiredLeadingByLine(lines)[j]}}

\* editBuilder.replace / insert / delete of every edit of a batch, applied at once
ApplyEdits(lines, edits) ==
    [k \in 1..Len(lines) |->
        IF \E e \in edits : e.line = k - 1
        THEN LET e == CHOOSE x \in edits : x.line = k - 1
             IN  SubSeq(lines[k], 1, e.from) \o Spaces(e.n)
                   \o SubSeq(lines[k], e.to + 1, Len(lines[k]))
        ELSE lines[k]]

\* The editor moves a position when a batch edit changes its line: a position at or
\* after the replaced range moves with the text behind it, one inside the range
\* stays within the replacement.
ShiftPos(p, edits) ==
    IF \E e \in edits : e.line = p.line
    THEN LET e == CHOOSE x \in edits : x.line = p.line
         IN  IF p.character >= e.to
             THEN Pos(p.line, p.character + e.n - (e.to - e.from))
             ELSE Pos(p.line, Min2(p.character, e.from + e.n))
    ELSE p

HostShift(sels, edits) ==
    [k \in 1..Len(sels) |->
        Selection(ShiftPos(sels[k].start, edits), ShiftPos(sels[k].end, edits))]

\* faulty offsets: character minus leading width without Math.max(0, ...)
CaptureOffsetsUnclamped(lines, sels) ==
    [k \in 1..Len(sels) |->
        [startOffset |->
            sels[k].start.character - Leading(LineAt(lines, sels[k].start.line)),
         endOffset |->
            sels[k].end.character - Leading(LineAt(lines, sels[k].end.line))]]

\* part_000: offsets.push({ startOffset, endOffset })
CaptureOffsets(lines, sels) ==
    [k \in 1..Len(sels) |->
        [startOffset |->
            Max2(0, sels[k].start.character - Leading(LineAt(lines, sels[k].start.line))),
         endOffset |->
            Max2(0, sels[k].end.character - Leading(LineAt(lines, sels[k].end.line)))]]

\* faulty restoration: the end column ignores endOffset
RestoreSelectionsEndAtContent(newLines, oldSels, offsets, desired) ==
    [k \in 1..Len(oldSels) |->
        LET startLine == oldSels[k].start.line
            endLine == oldSels[k].end.line
            newStartCol == Max2(0, desired[startLine] + offsets[k].startOffset)
            newEndCol == Max2(0, desired[endLine])
            clampedStart == Min2(newStartCol, Len(LineAt(newLines, startLine)))
            clampedEnd == Min2(newEndCol, Len(LineAt(newLines, endLine)))
        IN  Selection(Pos(startLine, clampedStart), Pos(endLine, clampedEnd))]

\* part_000: the loop that fills newSelections after the edit
RestoreSelections(newLines, oldSels, offsets, desired) ==
    [k \in 1..Len(oldSels) |->
        LET startLine == oldSels[k].start.line
            endLine == oldSels[k].end.line
            newStartCol == Max2(0, desired[startLine] + offsets[k].startOffset)
            newEndCol == Max2(0, desired[endLine] + offsets[k].endOffset)
            clampedStart == Min2(newStartCol, Len(LineAt(newLines, startLine)))
            clampedEnd == Min2(newEndCol, Len(LineAt(newLines, endLine)))
        IN  Selection(Pos(startLine, clampedStart), Pos(endLine, clampedEnd))]

\* ------------------------------------------------------- Fibonacci widths
Multiplier == 2

FibIdle ==
    /\ fDepth = 0 /\ fPc = "idle" /\ fN = 0 /\ fI = 0 /\ fA = 0 /\ fB = 0 /\ fRet = 0

\* a faulty getFibonacciSpacesForDepth: fibIndex = depth instead of depth + 1
GetFibonacciSpacesSameIndex ==
    /\ fPc = "entry"
    /\ IF fDepth = 0
       THEN /\ fRet' = 0
            /\ fPc' = "done"
            /\ UNCHANGED <<fN, fI, fA, fB>>
       ELSE LET fibIndex == fDepth
            IN  IF fibIndex <= 1
                THEN /\ fRet' = fibIndex * Multiplier
                     /\ fPc' = "done"
                     /\ fN' = fibIndex
                     /\ UNCHANGED <<fI, fA, fB>>
                ELSE /\ fN' = fibIndex
                     /\ fA' = 0
                     /\ fB' = 1
                     /\ fI' = 2
                     /\ fPc' = "loop"
                     /\ UNCHANGED fRet
    /\ UNCHANGED <<fDepth, passVars, liveVars>>

\* getFibonacciSpacesForDepth(depth) up to the call of fibonacci(depth + 1),
\* and fibonacci's own entry
GetFibonacciSpacesForDepth ==
    /\ fPc = "entry"
    /\ IF fDepth = 0
       THEN /\ fRet' = 0
            /\ fPc' = "done"
            /\ UNCHANGED <<fN, fI, fA, fB>>
       ELSE LET fibIndex == fDepth + 1
            IN  IF fibIndex <= 1
                THEN /\ fRet' = fibIndex * Multiplier
                     /\ fPc' = "done"
                     /\ fN' = fibIndex
                     /\ UNCHANGED <<fI, fA, fB>>
                ELSE /\ fN' = fibIndex
                     /\ fA' = 0
                     /\ fB' = 1
                     /\ fI' = 2
                     /\ fPc' = "loop"
                     /\ UNCHANGED fRet
    /\ UNCHANGED <<fDepth, passVars, liveVars>>

\* one iteration of "for (let i = 2; i <= n; i++)"
FibonacciLoop ==
    /\ fPc = "loop"
    /\ fI <= fN
    /\ fA' = fB
    /\ fB' = fA + fB
    /\ fI' = fI + 1
    /\ UNCHANGED <<fDepth, fPc, fN, fRet, passVars, liveVars>>

\* "return b" and "return fibonacci(fibIndex) * multiplier"
FibonacciReturn ==
    /\ fPc = "loop"
    /\ fI > fN
    /\ fRet' = fB * Multiplier
    /\ fPc' = "done"
    /\ UNCHANGED <<fDepth, fN, fI, fA, fB, passVars, liveVars>>

\* ------------------------------------------------ one pass on one document
PassIdle ==
    /\ pVariant = "none" /\ pText = <<>> /\ pSel = <<>> /\ pPrevText = <<>>
    /\ pPrevSel = <<>> /\ pEdits = {} /\ pIssued = 0 /\ pPasses = 0

Chars == {" ", "x"}

LinesUpTo(n) == UNION {[1..k -> Chars] : k \in 0..n}

DocsUpTo(n, m) == UNION {[1..k -> LinesUpTo(m)] : k \in 1..n}

\* the scenario of the specification: lines a, bb, ccc
ExampleDoc == << <<"a">>, <<"b", "b">>, <<"c", "c", "c">> >>

\* a document indented with a tab
TabDoc == << <<"\t", "x">>, <<"x", "x", "x">> >>

InputDocs == DocsUpTo(MaxLines, MaxLen) \cup {ExampleDoc, TabDoc}

\* editor.selections: one selection, or a caret at the start and one at the end of
\* the document
InputSelections(lines) ==
    LET last == Pos(Len(lines) - 1, Len(lines[Len(lines)]))
    IN  {<<s>> : s \in SelectionsOf(lines)}
          \cup {<<Selection(Pos(0, 0), Pos(0, 0)), Selection(last, last)>>}

\* part_000 runAlignment, lines 120-216, with the batch edit applied by the host
PassP0 ==
    /\ pVariant = "p0"
    /\ pPasses < 2
    /\ LET edits == ContentEdits(pText)
           desired == DesiredLeadingByLine(pText)
           offsets == CaptureOffsets(pText, pSel)
           newText == ApplyEdits(pText, edits)
       IN  /\ pEdits' = edits
           /\ IF edits = {}
              THEN /\ pIssued' = pIssued
                   /\ UNCHANGED <<pText, pSel>>
              ELSE /\ pIssued' = pIssued + 1
                   /\ pText' = newText
                   /\ pSel' = RestoreSelections(newText, pSel, offsets, desired)
    /\ pPrevText' = pText
    /\ pPrevSel' = pSel
    /\ pPasses' = pPasses + 1
    /\ UNCHANGED <<pVariant, fibVars, liveVars>>

\* part_001 runAlignment, lines 46-110, with the batch edit applied by the host
PassP1 ==
    /\ pVariant = "p1"
    /\ pPasses < 2
    /\ LET edits == ContentEdits(pText)
       IN  /\ pEdits' = edits
           /\ IF edits = {}
              THEN /\ pIssued' = pIssued
                   /\ UNCHANGED <<pText, pSel>>
              ELSE /\ pIssued' = pIssued + 1
                   /\ pText' = ApplyEdits(pText, edits)
                   /\ pSel' = HostShift(pSel, edits)
    /\ pPrevText' = pText
    /\ pPrevSel' = pSel
    /\ pPasses' = pPasses + 1
    /\ UNCHANGED <<pVariant, fibVars, liveVars>>

\* ------------------------------------------------------ the live extension
MaxLineLength == 3
MaxEnvSteps == 3

Docs == {"d1", "d2"}

\* const DEBOUNCE_MS of extension.ts, part_000 and part_001
DebounceExt == 50
DebounceP0 == 0
DebounceP1 == 15

\* alignDocument has not been called
NoAlign == [doc |-> "none", pre |-> <<>>, unaligns |-> 0, clean |-> FALSE]

\* unalignDocument has not been called
NoUnalign == [doc |-> "none", pre |-> <<>>, clean |-> FALSE]

LiveIdle ==
    /\ variant = "none"
    /\ text = [d \in Docs |-> <<>>]
    /\ selections = [d \in Docs |-> <<>>]
    /\ docState = [d \in Docs |-> "closed"]
    /\ timers = [d \in Docs |-> 0]
    /\ hostTimers = {}
    /\ isApplyingEdits = FALSE
    /\ needsRerun = FALSE
    /\ lastMax = [d \in Docs |-> 0]
    /\ inflight = <<>>
    /\ envSteps = 0
    /\ userEdited = {}
    /\ lastOutcome = "none"
    /\ alignLog = NoAlign
    /\ unalignLog = NoUnalign

\* the documents open when the extension is activated: one line with a leading
\* space in d1, two lines of different lengths in d2; neither is right-aligned
StartText == [d \in Docs |-> IF d = "d1"
                             THEN << <<" ", "x">> >>
                             ELSE << <<"x">>, <<"x", "x">> >>]

\* setTimeout(callback, delay): the new timer, with the lowest id not in use
SetTimeout(pending, d, ms) ==
    LET id == CHOOSE i \in 1..(Cardinality(pending) + 1) :
                 /\ \A t \in pending : t.id # i
                 /\ \A j \in 1..(i - 1) : \E t \in pending : t.id = j
    IN  [id |-> id, doc |-> d, delay |-> ms]

\* clearTimeout(timers.get(uri)) when timers.has(uri)
ClearTimeout(pending, id) == {t \in pending : t.id # id}

\* A change of document d makes every request for d that the host has not yet
\* processed refer to an old version of the document.
MarkStale(queue, d) ==
    [k \in 1..Len(queue) |->
        IF queue[k].doc = d /\ queue[k].phase = "sent"
        THEN [queue[k] EXCEPT !.stale = TRUE]
        ELSE queue[k]]

\* a call awaiting "await editor.edit(...)": a pass of a listener ("pass"), or
\* alignDocument ("align") or unalignDocument ("unalign")
Request(d, kind, edits, max, oldSels, offsets, desired) ==
    [doc |-> d, kind |-> kind, edits |-> edits, stale |-> FALSE, phase |-> "sent", max |-> max,
     oldSelections |-> oldSels, offsets |-> offsets, desired |-> desired, seen |-> {}]

\* faulty padding: the spaces replace the first character of the line
PadEditsOverwrite(lines) ==
    {Edit(i, 0, 1, MaxLineLen(lines) - Len(LineAt(lines, i))) :
        i \in {j \in 0..(Len(lines) - 1) : MaxLineLen(lines) - Len(LineAt(lines, j)) > 0}}

\* faulty padding: one space too many on every line
PadEditsTooWide(lines) ==
    {Edit(i, 0, 0, MaxLineLen(lines) - Len(LineAt(lines, i)) + 1) :
        i \in 0..(Len(lines) - 1)}

\* extension.ts: editBuilder.insert(new vscode.Position(i, 0), ' '.repeat(pad))
\* for every line with pad > 0
PadEdits(lines) ==
    {Edit(i, 0, 0, MaxLineLen(lines) - Len(LineAt(lines, i))) :
        i \in {j \in 0..(Len(lines) - 1) : MaxLineLen(lines) - Len(LineAt(lines, j)) > 0}}

\* The listeners up to setTimeout: what a change event on document d leaves in
\* timers and hostTimers. The listeners get the document as changed ("lines").
ScheduleDebounced(d, ms) ==
    LET cleared == IF timers[d] # 0 THEN ClearTimeout(hostTimers, timers[d]) ELSE hostTimers
        t == SetTimeout(cleared, d, ms)
    IN  [timers |-> [timers EXCEPT ![d] = t.id], hostTimers |-> cleared \cup {t}]

\* onDidChangeTextDocument of extension.ts
ListenerExt(d, lines, queue) ==
    IF isApplyingEdits
    THEN [timers |-> timers, hostTimers |-> hostTimers, needsRerun |-> needsRerun,
          inflight |-> queue, isApplyingEdits |-> isApplyingEdits]
    ELSE [timers |-> ScheduleDebounced(d, DebounceExt).timers,
          hostTimers |-> ScheduleDebounced(d, DebounceExt).hostTimers,
          needsRerun |-> needsRerun, inflight |-> queue,
          isApplyingEdits |-> isApplyingEdits]

\* onDidChangeTextDocument of part_000
ListenerP0(d, lines, queue) ==
    IF isApplyingEdits
    THEN [timers |-> timers, hostTimers |-> hostTimers, needsRerun |-> needsRerun,
          inflight |-> queue, isApplyingEdits |-> isApplyingEdits]
    ELSE [timers |-> ScheduleDebounced(d, DebounceP0).timers,
          hostTimers |-> ScheduleDebounced(d, DebounceP0).hostTimers,
          needsRerun |-> needsRerun, inflight |-> queue,
          isApplyingEdits |-> isApplyingEdits]

\* onDidChangeTextDocument of part_001 (first module): while busy it only sets
\* needsRerun. Every pass in flight records the document the event was for.
ListenerP1(d, lines, queue) ==
    IF isApplyingEdits
    THEN [timers |-> timers, hostTimers |-> hostTimers, needsRerun |-> TRUE,
          inflight |-> [k \in 1..Len(queue) |->
                           [queue[k] EXCEPT !.seen = @ \cup {d}]],
          isApplyingEdits |-> isApplyingEdits]
    ELSE [timers |-> ScheduleDebounced(d, DebounceP1).timers,
          hostTimers |-> ScheduleDebounced(d, DebounceP1).hostTimers,
          needsRerun |-> needsRerun, inflight |-> queue,
          isApplyingEdits |-> isApplyingEdits]

\* part_001, second module: changeListener, lines 185-231, up to "await
\* editor.edit". It has no timer: it pads within the event's own callback.
ChangeListener(d, lines, queue) ==
    IF isApplyingEdits \/ docState[d] # "shown"
    THEN [timers |-> timers, hostTimers |-> hostTimers, needsRerun |-> needsRerun,
          inflight |-> queue, isApplyingEdits |-> isApplyingEdits]
    ELSE IF \A i \in 0..(Len(lines) - 1) : ~(Len(LineAt(lines, i)) < MaxLineLen(lines))
    THEN [timers |-> timers, hostTimers |-> hostTimers, needsRerun |-> needsRerun,
          inflight |-> queue, isApplyingEdits |-> FALSE]
    ELSE [timers |-> timers, hostTimers |-> hostTimers, needsRerun |-> needsRerun,
          inflight |-> Append(queue, Request(d, "pass", PadEdits(lines),
                                             MaxLineLen(lines), <<>>, <<>>, <<>>)),
          isApplyingEdits |-> TRUE]

\* the change event of document d delivered to the installed listener
OnDidChangeTextDocument(d, lines, queue) ==
    CASE variant = "ext" -> ListenerExt(d, lines, queue)
      [] variant = "p0" -> ListenerP0(d, lines, queue)
      [] variant = "p1" -> ListenerP1(d, lines, queue)
      [] OTHER -> ChangeListener(d, lines, queue)

\* The user changes line l of document d to newLine and the caret moves to column
\* c; the change event reaches the listener.
UserChange(d, l, newLine, c) ==
    /\ envSteps < MaxEnvSteps
    /\ docState[d] = "shown"
    /\ LET r == OnDidChangeTextDocument(d, [text[d] EXCEPT ![l + 1] = newLine],
                                        MarkStale(inflight, d))
       IN  /\ timers' = r.timers
           /\ hostTimers' = r.hostTimers
           /\ needsRerun' = r.needsRerun
           /\ inflight' = r.inflight
           /\ isApplyingEdits' = r.isApplyingEdits
    /\ alignLog' = IF alignLog.doc = d
                   THEN [alignLog EXCEPT !.clean = FALSE]
                   ELSE alignLog
    /\ unalignLog' = IF unalignLog.doc = d
                     THEN [unalignLog EXCEPT !.clean = FALSE]
                     ELSE unalignLog
    /\ text' = [text EXCEPT ![d][l + 1] = newLine]
    /\ selections' = [selections EXCEPT ![d] = <<Selection(Pos(l, c), Pos(l, c))>>]
    /\ envSteps' = envSteps + 1
    /\ userEdited' = userEdited \cup {d}
    /\ UNCHANGED <<variant, docState, lastMax, lastOutcome, passVars, fibVars>>

\* the user types a character at the end of a line
UserTypes ==
    \E d \in Docs : \E l \in 0..(Len(text[d]) - 1) :
        /\ Len(LineAt(text[d], l)) < MaxLineLength
        /\ UserChange(d, l, Append(LineAt(text[d], l), "x"), Len(LineAt(text[d], l)) + 1)

\* the user deletes the first character of a line
UserDeletes ==
    \E d \in Docs : \E l \in 0..(Len(text[d]) - 1) :
        /\ Len(LineAt(text[d], l)) > 0
        /\ UserChange(d, l, Tail(LineAt(text[d], l)), 0)

\* the user closes the editor that shows a document
CloseEditor ==
    \E d \in Docs :
        /\ envSteps < MaxEnvSteps
        /\ docState[d] = "shown"
        /\ docState' = [docState EXCEPT ![d] = "hidden"]
        /\ envSteps' = envSteps + 1
        /\ alignLog' = IF alignLog.doc = d
                       THEN [alignLog EXCEPT !.clean = FALSE]
                       ELSE alignLog
        /\ unalignLog' = IF unalignLog.doc = d
                         THEN [unalignLog EXCEPT !.clean = FALSE]
                         ELSE unalignLog
        /\ UNCHANGED <<variant, text, selections, timers, hostTimers, isApplyingEdits,
                       needsRerun, lastMax, inflight, userEdited, lastOutcome,
                       passVars, fibVars>>

\* a document no editor shows is closed
CloseDocument ==
    \E d \in Docs :
        /\ envSteps < MaxEnvSteps
        /\ docState[d] = "hidden"
        /\ docState' = [docState EXCEPT ![d] = "closed"]
        /\ envSteps' = envSteps + 1
        /\ UNCHANGED <<variant, text, selections, timers, hostTimers, isApplyingEdits,
                       needsRerun, lastMax, inflight, userEdited, lastOutcome,
                       alignLog, unalignLog, passVars, fibVars>>

\* extension.ts: the timer callback, lines 29-76, up to "await editor.edit"
RunAlignmentExt ==
    \E t \in hostTimers :
        /\ variant = "ext"
        /\ hostTimers' = hostTimers \ {t}
        /\ timers' = [timers EXCEPT ![t.doc] = 0]
        /\ IF docState[t.doc] # "shown"
           THEN /\ lastOutcome' = "skipped"
                /\ UNCHANGED <<isApplyingEdits, inflight>>
           ELSE LET maxLen == MaxLineLen(text[t.doc])
                    prev == lastMax[t.doc]
                IN  IF maxLen = prev
                    THEN /\ isApplyingEdits' = FALSE
                         /\ lastOutcome' = "noedits"
                         /\ UNCHANGED inflight
                    ELSE /\ isApplyingEdits' = TRUE
                         /\ UNCHANGED lastOutcome
                         /\ inflight' = Append(inflight,
                               Request(t.doc, "pass", PadEdits(text[t.doc]), maxLen,
                                       <<>>, <<>>, <<>>))
        /\ UNCHANGED <<variant, text, selections, docState, needsRerun, lastMax,
                       envSteps, userEdited, alignLog, unalignLog, passVars, fibVars>>

\* a faulty runAlignment of part_000: timers.delete(uri) only after the checks
\* for a closed document and a missing editor
RunAlignmentP0KeepsEntry ==
    \E t \in hostTimers :
        /\ variant = "p0"
        /\ hostTimers' = hostTimers \ {t}
        /\ timers' = IF docState[t.doc] # "shown"
                     THEN timers
                     ELSE [timers EXCEPT ![t.doc] = 0]
        /\ IF docState[t.doc] # "shown"
           THEN /\ lastOutcome' = "skipped"
                /\ UNCHANGED <<isApplyingEdits, inflight, lastMax>>
           ELSE LET edoc == text[t.doc]
                    edits == ContentEdits(edoc)
                IN  IF edits = {}
                    THEN /\ lastMax' = [lastMax EXCEPT ![t.doc] = MaxContentLen(edoc)]
                         /\ isApplyingEdits' = FALSE
                         /\ lastOutcome' = "noedits"
                         /\ UNCHANGED inflight
                    ELSE /\ isApplyingEdits' = TRUE
                         /\ UNCHANGED lastOutcome
                         /\ inflight' = Append(inflight,
                               Request(t.doc, "pass", edits, MaxContentLen(edoc),
                                       selections[t.doc],
                                       CaptureOffsets(edoc, selections[t.doc]),
                                       DesiredLeadingByLine(edoc)))
                         /\ UNCHANGED lastMax
        /\ UNCHANGED <<variant, text, selections, docState, needsRerun,
                       envSteps, userEdited, alignLog, unalignLog, passVars, fibVars>>

\* part_000: runAlignment, lines 106-217, up to "await editor.edit"
RunAlignmentP0 ==
    \E t \in hostTimers :
        /\ variant = "p0"
        /\ hostTimers' = hostTimers \ {t}
        /\ timers' = [timers EXCEPT ![t.doc] = 0]
        /\ IF docState[t.doc] # "shown"
           THEN /\ lastOutcome' = "skipped"
                /\ UNCHANGED <<isApplyingEdits, inflight, lastMax>>
           ELSE LET edoc == text[t.doc]
                    edits == ContentEdits(edoc)
                IN  IF edits = {}
                    THEN /\ lastMax' = [lastMax EXCEPT ![t.doc] = MaxContentLen(edoc)]
                         /\ isApplyingEdits' = FALSE
                         /\ lastOutcome' = "noedits"
                         /\ UNCHANGED inflight
                    ELSE /\ isApplyingEdits' = TRUE
                         /\ UNCHANGED lastOutcome
                         /\ inflight' = Append(inflight,
                               Request(t.doc, "pass", edits, MaxContentLen(edoc),
                                       selections[t.doc],
                                       CaptureOffsets(edoc, selections[t.doc]),
                                       DesiredLeadingByLine(edoc)))
                         /\ UNCHANGED lastMax
        /\ UNCHANGED <<variant, text, selections, docState, needsRerun,
                       envSteps, userEdited, alignLog, unalignLog, passVars, fibVars>>

\* a faulty "finally": the follow-up timer is armed but needsRerun is not reset
FinallyP1KeepsRerun(d, pending, map) ==
    IF needsRerun
    THEN [needsRerun |-> TRUE,
          hostTimers |-> pending \cup {SetTimeout(pending, d, 0)},
          timers |-> [map EXCEPT ![d] = SetTimeout(pending, d, 0).id]]
    ELSE [needsRerun |-> needsRerun, hostTimers |-> pending, timers |-> map]

\* part_001: the "finally" of runAlignment, lines 100-110: what it leaves in
\* timers, hostTimers and needsRerun for the pass of document d
FinallyP1(d, pending, map) ==
    IF needsRerun
    THEN [needsRerun |-> FALSE,
          hostTimers |-> pending \cup {SetTimeout(pending, d, 0)},
          timers |-> [map EXCEPT ![d] = SetTimeout(pending, d, 0).id]]
    ELSE [needsRerun |-> needsRerun, hostTimers |-> pending, timers |-> map]

\* part_001: runAlignment, lines 35-111, up to "await editor.edit"
RunAlignmentP1 ==
    \E t \in hostTimers :
        /\ variant = "p1"
        /\ IF docState[t.doc] # "shown"
           THEN /\ hostTimers' = hostTimers \ {t}
                /\ timers' = [timers EXCEPT ![t.doc] = 0]
                /\ lastOutcome' = "skipped"
                /\ UNCHANGED <<isApplyingEdits, inflight, needsRerun>>
           ELSE LET edits == ContentEdits(text[t.doc])
                    fin == FinallyP1(t.doc, hostTimers \ {t}, [timers EXCEPT ![t.doc] = 0])
                IN  IF edits = {}
                    THEN /\ isApplyingEdits' = FALSE
                         /\ needsRerun' = fin.needsRerun
                         /\ hostTimers' = fin.hostTimers
                         /\ timers' = fin.timers
                         /\ lastOutcome' = "noedits"
                         /\ UNCHANGED inflight
                    ELSE /\ isApplyingEdits' = TRUE
                         /\ lastOutcome' = lastOutcome
                         /\ hostTimers' = hostTimers \ {t}
                         /\ timers' = [timers EXCEPT ![t.doc] = 0]
                         /\ inflight' = Append(inflight,
                               Request(t.doc, "pass", edits, MaxContentLen(text[t.doc]),
                                       <<>>, <<>>, <<>>))
                         /\ UNCHANGED needsRerun
        /\ UNCHANGED <<variant, text, selections, docState, lastMax,
                       envSteps, userEdited, alignLog, unalignLog, passVars, fibVars>>

\* the index of the oldest request the host has not processed yet (0: none)
OldestSent ==
    IF \E k \in 1..Len(inflight) : inflight[k].phase = "sent"
    THEN CHOOSE k \in 1..Len(inflight) :
            /\ inflight[k].phase = "sent"
            /\ \A j \in 1..(k - 1) : inflight[j].phase # "sent"
    ELSE 0

\* The host processes the oldest request of editor.edit: it fails when no editor
\* shows the document any more, it is refused (editor.edit resolves to false) when
\* the document has changed since the edits were computed, and otherwise all its
\* edits are applied at once and the change event reaches the listener.
HostApply ==
    /\ OldestSent # 0
    /\ LET k == OldestSent
           r == inflight[k]
           d == r.doc
       IN  IF docState[d] # "shown"
           THEN /\ inflight' = [inflight EXCEPT ![k].phase = "failed"]
                /\ UNCHANGED <<text, selections, timers, hostTimers, needsRerun,
                               isApplyingEdits>>
           ELSE IF r.stale
           THEN /\ inflight' = [inflight EXCEPT ![k].phase = "rejected"]
                /\ UNCHANGED <<text, selections, timers, hostTimers, needsRerun,
                               isApplyingEdits>>
           ELSE IF r.edits = {}
           THEN /\ inflight' = [inflight EXCEPT ![k].phase = "applied"]
                /\ UNCHANGED <<text, selections, timers, hostTimers, needsRerun,
                               isApplyingEdits>>
           ELSE LET ev == OnDidChangeTextDocument(d, ApplyEdits(text[d], r.edits),
                            MarkStale([inflight EXCEPT ![k].phase = "applied"], d))
                IN  /\ text' = [text EXCEPT ![d] = ApplyEdits(text[d], r.edits)]
                    /\ selections' = [selections EXCEPT ![d] = HostShift(selections[d], r.edits)]
                    /\ timers' = ev.timers
                    /\ hostTimers' = ev.hostTimers
                    /\ needsRerun' = ev.needsRerun
                    /\ inflight' = ev.inflight
                    /\ isApplyingEdits' = ev.isApplyingEdits
    /\ UNCHANGED <<variant, docState, lastMax, envSteps, userEdited,
                   lastOutcome, alignLog, unalignLog, passVars, fibVars>>

\* extension.ts: lines 69-75, after "await editor.edit"
CompleteExt ==
    /\ variant = "ext"
    /\ inflight # <<>>
    /\ Head(inflight).phase # "sent"
    /\ inflight' = Tail(inflight)
    /\ lastOutcome' = Head(inflight).phase
    /\ lastMax' = IF Head(inflight).phase = "failed"
                  THEN lastMax
                  ELSE [lastMax EXCEPT ![Head(inflight).doc] = Head(inflight).max]
    /\ isApplyingEdits' = FALSE
    /\ UNCHANGED <<variant, text, selections, docState, timers, hostTimers, needsRerun,
                   envSteps, userEdited, alignLog, unalignLog, passVars, fibVars>>

\* a faulty completion of part_000: isApplyingEdits is reset after the edit
\* instead of in "finally", so a throwing editor.edit leaves it set
CompleteP0NoFinally ==
    /\ variant = "p0"
    /\ inflight # <<>>
    /\ Head(inflight).phase # "sent"
    /\ inflight' = Tail(inflight)
    /\ lastOutcome' = Head(inflight).phase
    /\ LET r == Head(inflight)
       IN  IF r.phase = "failed"
           THEN UNCHANGED <<selections, lastMax, isApplyingEdits>>
           ELSE /\ selections' = [selections EXCEPT ![r.doc] =
                      RestoreSelections(text[r.doc], r.oldSelections, r.offsets, r.desired)]
                /\ lastMax' = [lastMax EXCEPT ![r.doc] = r.max]
                /\ isApplyingEdits' = FALSE
    /\ UNCHANGED <<variant, text, docState, timers, hostTimers, needsRerun,
                   envSteps, userEdited, alignLog, unalignLog, passVars, fibVars>>

\* part_000: lines 184-216, after "await editor.edit"
CompleteP0 ==
    /\ variant = "p0"
    /\ inflight # <<>>
    /\ Head(inflight).phase # "sent"
    /\ inflight' = Tail(inflight)
    /\ lastOutcome' = Head(inflight).phase
    /\ LET r == Head(inflight)
       IN  IF r.phase = "failed"
           THEN UNCHANGED <<selections, lastMax>>
           ELSE /\ selections' = [selections EXCEPT ![r.doc] =
                      RestoreSelections(text[r.doc], r.oldSelections, r.offsets, r.desired)]
                /\ lastMax' = [lastMax EXCEPT ![r.doc] = r.max]
    /\ isApplyingEdits' = FALSE
    /\ UNCHANGED <<variant, text, docState, timers, hostTimers, needsRerun,
                   envSteps, userEdited, alignLog, unalignLog, passVars, fibVars>>

\* a faulty handling of a throw while the selections are restored: no "finally",
\* so isApplyingEdits stays set
RestoreThrowsP0NoFinally ==
    /\ variant = "p0"
    /\ inflight # <<>>
    /\ Head(inflight).phase \in {"applied", "rejected"}
    /\ inflight' = Tail(inflight)
    /\ lastOutcome' = "unrestored"
    /\ \E at \in {"compute", "assign"} :
        lastMax' = IF at = "assign"
                   THEN [lastMax EXCEPT ![Head(inflight).doc] = Head(inflight).max]
                   ELSE lastMax
    /\ UNCHANGED <<variant, text, selections, docState, timers, hostTimers, needsRerun,
                   isApplyingEdits, envSteps, userEdited, alignLog, unalignLog,
                   passVars, fibVars>>

\* part_000: lines 184-216 when restoring the selections throws after "await
\* editor.edit" has returned. A throw while the new selections are computed
\* (lines 186-202) goes to the outer catch (line 212) and skips lastMax.set; a
\* throw of "editor.selections = newSelections" is caught at line 206 and
\* lastMax.set follows. Both end in "finally"; the selections stay as the editor
\* left them.
RestoreThrowsP0 ==
    /\ variant = "p0"
    /\ inflight # <<>>
    /\ Head(inflight).phase \in {"applied", "rejected"}
    /\ inflight' = Tail(inflight)
    /\ lastOutcome' = "unrestored"
    /\ \E at \in {"compute", "assign"} :
        lastMax' = IF at = "assign"
                   THEN [lastMax EXCEPT ![Head(inflight).doc] = Head(inflight).max]
                   ELSE lastMax
    /\ isApplyingEdits' = FALSE
    /\ UNCHANGED <<variant, text, selections, docState, timers, hostTimers, needsRerun,
                   envSteps, userEdited, alignLog, unalignLog, passVars, fibVars>>

\* part_001: lines 94-110, after "await editor.edit"
CompleteP1 ==
    /\ variant = "p1"
    /\ inflight # <<>>
    /\ Head(inflight).phase # "sent"
    /\ inflight' = Tail(inflight)
    /\ lastOutcome' = Head(inflight).phase
    /\ isApplyingEdits' = FALSE
    /\ LET fin == FinallyP1(Head(inflight).doc, hostTimers, timers)
       IN  /\ needsRerun' = fin.needsRerun
           /\ hostTimers' = fin.hostTimers
           /\ timers' = fin.timers
    /\ UNCHANGED <<variant, text, selections, docState, lastMax,
                   envSteps, userEdited, alignLog, unalignLog, passVars, fibVars>>

\* -------------------------------------------------- the command variant
\* unalignDocument: editBuilder.delete(new vscode.Range(i, 0, i, 1)) for every
\* line that starts with a space
UnalignEdits(lines) ==
    {Edit(i, 0, 1, 0) :
        i \in {j \in 0..(Len(lines) - 1) :
                 Len(LineAt(lines, j)) > 0 /\ LineAt(lines, j)[1] = " "}}

\* part_001: alignDocument, lines 244-277, up to "await editor.edit"
AlignDocument ==
    \E d \in Docs :
        /\ variant = "cmd"
        /\ envSteps < MaxEnvSteps
        /\ docState[d] = "shown"
        /\ inflight' = Append(inflight,
               Request(d, "align", PadEdits(text[d]), MaxLineLen(text[d]), <<>>, <<>>, <<>>))
        /\ alignLog' = [doc |-> d, pre |-> text[d], unaligns |-> 0, clean |-> inflight = <<>>]
        /\ unalignLog' = IF unalignLog.doc = d
                         THEN [unalignLog EXCEPT !.clean = FALSE]
                         ELSE unalignLog
        /\ envSteps' = envSteps + 1
        /\ UNCHANGED <<variant, text, selections, docState, timers, hostTimers,
                       isApplyingEdits, needsRerun, lastMax, userEdited, lastOutcome,
                       passVars, fibVars>>

\* part_001: unalignDocument, lines 283-306, up to "await editor.edit"
UnalignDocument ==
    \E d \in Docs :
        /\ variant = "cmd"
        /\ envSteps < MaxEnvSteps
        /\ docState[d] = "shown"
        /\ inflight' = Append(inflight,
               Request(d, "unalign", UnalignEdits(text[d]), 0, <<>>, <<>>, <<>>))
        /\ alignLog' = IF alignLog.doc = d
                       THEN [alignLog EXCEPT !.unaligns = @ + 1,
                                             !.clean = @ /\ inflight = <<>>]
                       ELSE alignLog
        /\ unalignLog' = [doc |-> d, pre |-> text[d], clean |-> inflight = <<>>]
        /\ envSteps' = envSteps + 1
        /\ UNCHANGED <<variant, text, selections, docState, timers, hostTimers,
                       isApplyingEdits, needsRerun, lastMax, userEdited, lastOutcome,
                       passVars, fibVars>>

\* part_001, second module: what follows "await editor.edit": the "finally" of
\* changeListener (lines 228-230) or the revealRange of a command
CompleteCmd ==
    /\ variant = "cmd"
    /\ inflight # <<>>
    /\ Head(inflight).phase # "sent"
    /\ inflight' = Tail(inflight)
    /\ lastOutcome' = Head(inflight).phase
    /\ isApplyingEdits' = IF Head(inflight).kind = "pass" THEN FALSE ELSE isApplyingEdits
    /\ UNCHANGED <<variant, text, selections, docState, timers, hostTimers, needsRerun,
                   lastMax, envSteps, userEdited, alignLog, unalignLog, passVars, fibVars>>

\* ---------------------------------------------------------- specifications
Init ==
    /\ variant \in {"ext", "p0", "p1"}
    /\ text = StartText
    /\ selections = [d \in Docs |-> <<Selection(Pos(0, 0), Pos(0, 0))>>]
    /\ docState = [d \in Docs |-> "shown"]
    /\ timers = [d \in Docs |-> 0]
    /\ hostTimers = {}
    /\ isApplyingEdits = FALSE
    /\ needsRerun = FALSE
    /\ lastMax = [d \in Docs |-> 0]
    /\ inflight = <<>>
    /\ envSteps = 0
    /\ userEdited = {}
    /\ lastOutcome = "none"
    /\ alignLog = NoAlign
    /\ unalignLog = NoUnalign
    /\ PassIdle
    /\ FibIdle

Next ==
    \/ UserTypes
    \/ UserDeletes
    \/ CloseEditor
    \/ CloseDocument
    \/ RunAlignmentExt
    \/ RunAlignmentP0
    \/ RunAlignmentP1
    \/ HostApply
    \/ CompleteExt
    \/ CompleteP0
    \/ RestoreThrowsP0
    \/ CompleteP1

Spec == Init /\ [][Next]_vars

\* The first listener of part_001 alone, with the scheduling of the extension
\* host: an armed timer fires, the editor settles every editor.edit, and the code
\* after "await" then runs.
InitP1 == Init /\ variant = "p1"

NextP1 ==
    \/ UserTypes
    \/ UserDeletes
    \/ CloseEditor
    \/ CloseDocument
    \/ RunAlignmentP1
    \/ HostApply
    \/ CompleteP1

SpecP1Fair ==
    /\ InitP1
    /\ [][NextP1]_vars
    /\ WF_vars(RunAlignmentP1)
    /\ WF_vars(HostApply)
    /\ WF_vars(CompleteP1)

InitCmd ==
    /\ variant = "cmd"
    /\ text = StartText
    /\ selections = [d \in Docs |-> <<Selection(Pos(0, 0), Pos(0, 0))>>]
    /\ docState = [d \in Docs |-> "shown"]
    /\ timers = [d \in Docs |-> 0]
    /\ hostTimers = {}
    /\ isApplyingEdits = FALSE
    /\ needsRerun = FALSE
    /\ lastMax = [d \in Docs |-> 0]
    /\ inflight = <<>>
    /\ envSteps = 0
    /\ userEdited = {}
    /\ lastOutcome = "none"
    /\ alignLog = NoAlign
    /\ unalignLog = NoUnalign
    /\ PassIdle
    /\ FibIdle

NextCmd ==
    \/ UserTypes
    \/ UserDeletes
    \/ CloseEditor
    \/ CloseDocument
    \/ AlignDocument
    \/ UnalignDocument
    \/ HostApply
    \/ CompleteCmd

SpecCmd == InitCmd /\ [][NextCmd]_vars

\* The two variants that pad by raw line length: extension.ts, and the second
\* module of part_001 with its commands and its changeListener.
InitRaw == (Init /\ variant = "ext") \/ InitCmd

NextRaw ==
    \/ UserTypes
    \/ UserDeletes
    \/ CloseEditor
    \/ CloseDocument
    \/ RunAlignmentExt
    \/ AlignDocument
    \/ UnalignDocument
    \/ HostApply
    \/ CompleteExt
    \/ CompleteCmd

SpecRaw == InitRaw /\ [][NextRaw]_vars

InitPass ==
    /\ pVariant \in {"p0", "p1"}
    /\ pText \in InputDocs
    /\ pSel \in IF pVariant = "p0"
               THEN InputSelections(pText)
               ELSE {<<Selection(Pos(0, 0), Pos(0, 0))>>}
    /\ pPrevText = <<>>
    /\ pPrevSel = <<>>
    /\ pEdits = {}
    /\ pIssued = 0
    /\ pPasses = 0
    /\ FibIdle
    /\ LiveIdle

NextPass == PassP0 \/ PassP1

SpecPass == InitPass /\ [][NextPass]_vars

InitFib ==
    /\ fDepth \in 0..MaxDepth
    /\ fPc = "entry"
    /\ fN = 0 /\ fI = 0 /\ fA = 0 /\ fB = 0 /\ fRet = 0
    /\ PassIdle
    /\ LiveIdle

NextFib == GetFibonacciSpacesForDepth \/ FibonacciLoop \/ FibonacciReturn

SpecFib == InitFib /\ [][NextFib]_vars

\* ------------------------------------------------------------------ claims
\* The width of the leading whitespace of a line and the text after it, stated
\* without the operators of the model.
WsWidth(t) == Cardinality({i \in 1..Len(t) : \A j \in 1..i : t[j] \in {" ", "\t"}})

AfterWs(t) == [i \in 1..(Len(t) - WsWidth(t)) |-> t[i + WsWidth(t)]]

LongestContent(lines) ==
    CHOOSE m \in {Len(AfterWs(lines[k])) : k \in 1..Len(lines)} :
        \A k \in 1..Len(lines) : Len(AfterWs(lines[k])) <= m

\* C2: one content-aware pass (part_000, part_001 first listener) whose batch edit
\* is applied without an interleaved user edit leaves every line equal to
\* (maxContentLength - contentLength) spaces followed by its original content, so
\* leadingWidth + contentLength = maxContentLength and leadingWidth >= 0.
C2_PassRightAligns ==
    pPasses = 1 =>
        /\ Len(pText) = Len(pPrevText)
        /\ \A k \in 1..Len(pText) :
            LET m == LongestContent(pPrevText)
                c == AfterWs(pPrevText[k])
            IN  /\ m - Len(c) >= 0
                /\ pText[k] = [i \in 1..m |-> IF i <= m - Len(c) THEN " " ELSE c[i - (m - Len(c))]]
                /\ WsWidth(pText[k]) + (Len(pText[k]) - WsWidth(pText[k])) = m

\* C2 witness: the scenario a, bb, ccc after its pass
C2_Witness ==
    /\ pPasses = 1
    /\ pPrevText = ExampleDoc
    /\ pText = << <<" ", " ", "a">>, <<" ", "b", "b">>, <<"c", "c", "c">> >>

\* C3: a second pass that follows a pass whose batch edit was applied, with no
\* document change in between, computes an empty edit set and issues no batch edit.
C3_SecondPassNoEdits ==
    pPasses = 2 => (pEdits = {} /\ pIssued <= 1 /\ pText = pPrevText)

\* C3 witness: the first pass issued a batch edit and the second pass has run
C3_Witness == pPasses = 2 /\ pIssued = 1 /\ pEdits = {}

\* The endpoints of selection k before and after the last pass.
EndpointBefore(k, which) == IF which = "start" THEN pPrevSel[k].start ELSE pPrevSel[k].end

EndpointAfter(k, which) == IF which = "start" THEN pSel[k].start ELSE pSel[k].end

\* C4 as stated: in part_000 every endpoint at column p of a line whose leading
\* width goes from w_old to w_new ends at column min(w_new + (p - w_old),
\* newLineLength), also for p inside the leading whitespace.
C4_CaretAnyColumn ==
    (pVariant = "p0" /\ pPasses = 1) =>
        \A k \in 1..Len(pPrevSel) : \A which \in {"start", "end"} :
            LET old == EndpointBefore(k, which)
                wOld == WsWidth(LineAt(pPrevText, old.line))
                wNew == WsWidth(LineAt(pText, old.line))
            IN  EndpointAfter(k, which).character
                  = Min2(wNew + (old.character - wOld), Len(LineAt(pText, old.line)))

\* C4 amended: when the pass of part_000 applies a batch edit, every endpoint ends
\* at column min(w_new + max(0, p - w_old), newLineLength), so an endpoint inside
\* the leading whitespace lands on the first content column; a pass that computes
\* no edit leaves the selections as they were.
C4_CaretContentAnchored ==
    (pVariant = "p0" /\ pPasses = 1) =>
        IF pEdits = {}
        THEN pSel = pPrevSel
        ELSE /\ Len(pSel) = Len(pPrevSel)
             /\ \A k \in 1..Len(pPrevSel) : \A which \in {"start", "end"} :
                 LET old == EndpointBefore(k, which)
                     wOld == WsWidth(LineAt(pPrevText, old.line))
                     wNew == WsWidth(LineAt(pText, old.line))
                     off == IF old.character > wOld THEN old.character - wOld ELSE 0
                 IN  EndpointAfter(k, which).character
                       = Min2(wNew + off, Len(LineAt(pText, old.line)))

\* C4 witness: a batch edit was applied while a caret stood inside the leading
\* whitespace of a line whose width changed
C4_Witness ==
    /\ pVariant = "p0"
    /\ pPasses = 1
    /\ pEdits # {}
    /\ \E k \in 1..Len(pPrevSel) :
        LET old == pPrevSel[k].start
        IN  /\ old.character < WsWidth(LineAt(pPrevText, old.line))
            /\ WsWidth(LineAt(pText, old.line)) # WsWidth(LineAt(pPrevText, old.line))
            /\ pSel[k].start.character = WsWidth(LineAt(pText, old.line))

\* the README's example table: indent levels 1..5 give 2, 2, 4, 6, 10 spaces
ReadmeSpaces == <<2, 2, 4, 6, 10>>

\* C5: getFibonacciSpacesForDepth returns 0, 2, 2, 4, 6, 10 for depths 0..5.
C5_ReadmeTable ==
    (fPc = "done" /\ fDepth <= 5) =>
        fRet = (IF fDepth = 0 THEN 0 ELSE ReadmeSpaces[fDepth])

\* a document whose every line ends its content at the column of the longest content
RightAligned(lines) ==
    \A k \in 1..Len(lines) : Len(lines[k]) = LongestContent(lines)

\* the timers armed for document d
PendingFor(d) == {t \in hostTimers : t.doc = d}

\* C1: in part_000 and the first listener of part_001 no two batch edits for the
\* same document are in flight (started and not yet completed) at the same time.
C1_OneBatchPerDocument ==
    variant \in {"p0", "p1"} =>
        \A i \in 1..Len(inflight) : \A j \in 1..Len(inflight) :
            i # j => inflight[i].doc # inflight[j].doc

\* C7: the busy flag is never left set: whenever no pass is between its start and
\* its finally block, isApplyingEdits is false, whether the batch edit was applied,
\* refused or threw, or the pass returned early.
C7_NeverWedged == inflight = <<>> => ~isApplyingEdits

\* C7 witness: a pass whose batch edit threw has ended and the flag is clear
C7_Witness == inflight = <<>> /\ lastOutcome = "failed" /\ ~isApplyingEdits

\* C8: in part_001, when a batch edit completes, a 0 ms timer is armed for every
\* document on which a change event was observed while that edit was in flight.
C8_RerunForObservedDocument ==
    [][(variant = "p1" /\ Len(inflight') = Len(inflight) - 1) =>
          \A d \in Head(inflight).seen :
              \E t \in hostTimers' \ hostTimers : t.doc = d /\ t.delay = 0]_vars

\* C9: every document has at most one pending debounce timer.
C9_OnePendingTimer == \A d \in Docs : Cardinality(PendingFor(d)) <= 1

\* C10: in part_000, once no timer is pending and no batch edit is in flight, every
\* document the user has edited and an editor still shows is right-aligned: the
\* state the system stays in when the user edits no more.
C10_QuiescentAligned ==
    (variant = "p0" /\ hostTimers = {} /\ inflight = <<>>) =>
        \A d \in userEdited : docState[d] = "shown" => RightAligned(text[d])

\* C6: after alignDocument and then as many calls of unalignDocument as the width
\* align inserted on a line, each call made once the callbacks of the one before
\* have run, that line's leading whitespace is as wide as before align (documents
\* without an empty line, no other change in between).
C6_UnalignInvertsAlign ==
    (/\ variant = "cmd"
     /\ alignLog.doc # "none"
     /\ inflight = <<>>
     /\ alignLog.clean
     /\ \A k \in 1..Len(alignLog.pre) : Len(alignLog.pre[k]) > 0) =>
            \A k \in 1..Len(alignLog.pre) :
                LET longest == CHOOSE m \in {Len(alignLog.pre[j]) : j \in 1..Len(alignLog.pre)} :
                                  \A j \in 1..Len(alignLog.pre) : Len(alignLog.pre[j]) <= m
                    pad == longest - Len(alignLog.pre[k])
                IN  alignLog.unaligns = pad =>
                        WsWidth(text[alignLog.doc][k]) = WsWidth(alignLog.pre[k])

\* C11: in part_000 and the first listener of part_001 the change event of the
\* extension's own batch edit (a step of the host that changes a document, not
\* the user) neither arms a timer nor asks for a rerun, so it causes no other pass.
C11_OwnEditIgnored ==
    [][(variant \in {"p0", "p1"} /\ text' # text /\ envSteps' = envSteps) =>
          (hostTimers' \subseteq hostTimers /\ (needsRerun' => needsRerun))]_vars

\* every line of the document is as long as every other
SameLength(lines) ==
    \A k \in 1..Len(lines) : \A j \in 1..Len(lines) : Len(lines[k]) = Len(lines[j])

\* C12: in extension.ts a pass that the lastMax check skips (its timer fired for a
\* shown document and no batch edit was issued) finds every line already at the
\* maximum line length.
C12_SkipOnlyWhenAligned ==
    [][\A t \in hostTimers \ hostTimers' :
          (/\ variant = "ext"
           /\ envSteps' = envSteps
           /\ docState[t.doc] = "shown"
           /\ inflight' = inflight) => SameLength(text[t.doc])]_vars

\* C13: in the command variant, once unalignDocument and every callback it
\* triggers have run, each line that began with a space has lost exactly that
\* space and every other line is as it was (nothing else touched the document).
C13_UnalignRemovesOneSpace ==
    (/\ variant = "cmd"
     /\ unalignLog.doc # "none"
     /\ unalignLog.clean
     /\ inflight = <<>>) =>
        /\ Len(text[unalignLog.doc]) = Len(unalignLog.pre)
        /\ \A k \in 1..Len(unalignLog.pre) :
            LET before == unalignLog.pre[k]
            IN  text[unalignLog.doc][k] =
                  IF Len(before) > 0 /\ before[1] = " "
                  THEN [i \in 1..(Len(before) - 1) |-> before[i + 1]]
                  ELSE before

\* the longest line length of a document, stated without the operators of the model
LongestLine(lines) ==
    CHOOSE m \in {Len(lines[j]) : j \in 1..Len(lines)} :
        \A j \in 1..Len(lines) : Len(lines[j]) <= m

\* C14: once alignDocument has run (called with nothing in flight, its edit
\* completed, nothing else touching the document), every line is its text of
\* before the call preceded by (max - length) spaces, max being the longest line
\* length before the call; so all lines have length max and a line that had it
\* is unchanged.
C14_AlignPadsToLongest ==
    (/\ variant = "cmd"
     /\ alignLog.doc # "none"
     /\ alignLog.clean
     /\ alignLog.unaligns = 0
     /\ inflight = <<>>) =>
        /\ Len(text[alignLog.doc]) = Len(alignLog.pre)
        /\ \A k \in 1..Len(alignLog.pre) :
            LET max == LongestLine(alignLog.pre)
                old == alignLog.pre[k]
                new == text[alignLog.doc][k]
            IN  /\ Len(new) = max
                /\ new = [i \in 1..max |-> IF i <= max - Len(old) THEN " "
                                           ELSE old[i - (max - Len(old))]]
                /\ Len(old) = max => new = old

\* C14 witness: alignDocument has padded a shorter line and has completed
C14_Witness ==
    /\ variant = "cmd"
    /\ alignLog.doc # "none"
    /\ alignLog.clean
    /\ alignLog.unaligns = 0
    /\ inflight = <<>>
    /\ lastOutcome = "applied"
    /\ \E k \in 1..Len(alignLog.pre) :
        Len(alignLog.pre[k]) < Len(text[alignLog.doc][k])

\* C15: in extension.ts, part_000 and the first listener of part_001, when the
\* batch edit of a pass threw, the completion of the pass clears the busy flag,
\* starts no pass, and arms no timer except for a document on which a change
\* event was observed while the edit was in flight.
C15_FailureNoRetry ==
    [][(/\ variant \in {"ext", "p0", "p1"}
        /\ Len(inflight') = Len(inflight) - 1
        /\ Head(inflight).phase = "failed") =>
          /\ ~isApplyingEdits'
          /\ inflight' = Tail(inflight)
          /\ \A t \in hostTimers' \ hostTimers : t.doc \in Head(inflight).seen]_vars

\* C16: when a timer fires for a document that is closed or that no editor shows,
\* the pass is skipped: no batch edit is issued, text and selections, the busy
\* flag and lastMax are unchanged, and the timer entry of the document is removed.
C16_SkipWithoutEditor ==
    [][\A t \in hostTimers \ hostTimers' :
          docState[t.doc] # "shown" =>
              /\ inflight' = inflight
              /\ text' = text
              /\ selections' = selections
              /\ isApplyingEdits' = isApplyingEdits
              /\ lastMax' = lastMax
              /\ timers'[t.doc] = 0
              /\ hostTimers' = hostTimers \ {t}]_vars

\* C16 witness: a timer has fired for a document no editor shows
C16_Witness ==
    /\ lastOutcome = "skipped"
    /\ \E d \in Docs : docState[d] # "shown" /\ timers[d] = 0 /\ d \in userEdited

\* every selection endpoint of document d lies within its line
SelectionsInBounds(lines, sels) ==
    \A k \in 1..Len(sels) :
        /\ sels[k].start.line < Len(lines)
        /\ sels[k].end.line < Len(lines)
        /\ sels[k].start.character <= Len(lines[sels[k].start.line + 1])
        /\ sels[k].end.character <= Len(lines[sels[k].end.line + 1])

\* C17: in part_000, when a pass ends after its batch edit was handed to the
\* editor, whether the selections were restored or restoring them threw, the
\* document text is left as the editor has it, the busy flag is released, and the
\* selections of the document lie within its lines (columns beyond the line
\* length are clamped).
C17_RestoreFailureContained ==
    [][(/\ variant = "p0"
        /\ Len(inflight') = Len(inflight) - 1
        /\ Head(inflight).phase \in {"applied", "rejected"}) =>
          /\ text' = text
          /\ ~isApplyingEdits'
          /\ SelectionsInBounds(text'[Head(inflight).doc],
                                selections'[Head(inflight).doc])]_vars

\* C17 witness: restoring the selections threw after an edit that changed the
\* document, and the flag is clear
C17_Witness ==
    /\ variant = "p0"
    /\ lastOutcome = "unrestored"
    /\ ~isApplyingEdits
    /\ \E d \in Docs : text[d] # StartText[d] /\ d \in userEdited

\* C18: the edit set of a content-aware pass (part_000, part_001 first listener)
\* holds exactly the lines whose leading width differs from the desired width;
\* each edit replaces columns [0, leadingWidth) of its line by spaces; the pass
\* changes neither the number of lines nor the text after the leading whitespace
\* of any line.
C18_PassFrame ==
    pPasses = 1 =>
        /\ {e.line : e \in pEdits} =
              {i \in 0..(Len(pPrevText) - 1) :
                  WsWidth(pPrevText[i + 1])
                    # LongestContent(pPrevText) - Len(AfterWs(pPrevText[i + 1]))}
        /\ \A e \in pEdits :
              /\ e.from = 0
              /\ e.to = WsWidth(pPrevText[e.line + 1])
              /\ e.n = LongestContent(pPrevText) - Len(AfterWs(pPrevText[e.line + 1]))
              /\ \A f \in pEdits : f.line = e.line => f = e
        /\ Len(pText) = Len(pPrevText)
        /\ \A k \in 1..Len(pText) : AfterWs(pText[k]) = AfterWs(pPrevText[k])

\* C18 witness: a pass on a document with a tab-indented line and a line already
\* at its desired width has edited the one and left the other out of the edit set
C18_Witness ==
    /\ pPasses = 1
    /\ pPrevText = TabDoc
    /\ {e.line : e \in pEdits} = {0}
    /\ pText = << <<" ", " ", "x">>, <<"x", "x", "x">> >>

\* the standard Fibonacci sequence: F(0) = 0, F(1) = 1, F(n) = F(n-1) + F(n-2)
RECURSIVE StandardFibonacci(_)
StandardFibonacci(n) ==
    IF n = 0 THEN 0
    ELSE IF n = 1 THEN 1
    ELSE StandardFibonacci(n - 1) + StandardFibonacci(n - 2)

Quiescent ==
    /\ hostTimers = {}
    /\ inflight = <<>>
    /\ ~isApplyingEdits
    /\ ~needsRerun

\* C20: in the first listener of part_001, under fair scheduling and once the
\* user edits no more, the system reaches a state with no pending timer,
\* isApplyingEdits false and needsRerun false and stays there: the follow-up
\* passes are finitely many.
C20_P1Quiesces == <>[](variant = "p1" => Quiescent)

\* C20 witness: the user has typed one character in d1, a pass has removed the
\* leading space, the follow-up pass has found nothing to edit, and nothing is
\* pending
C20_Witness ==
    /\ variant = "p1"
    /\ Quiescent
    /\ envSteps = 1
    /\ lastOutcome = "noedits"
    /\ text["d1"] = << <<"x", "x">> >>

\* line "new" is line "old" with spaces inserted at column 0
PaddedAtFront(old, new) ==
    /\ Len(new) >= Len(old)
    /\ \A i \in 1..(Len(new) - Len(old)) : new[i] = " "
    /\ \A i \in 1..Len(old) : new[i + (Len(new) - Len(old))] = old[i]

\* C21: in extension.ts and the changeListener of the second module of
\* part_001, when the editor applies the batch edit of an alignment pass, every
\* line of every document is its old text with spaces inserted at column 0 (no
\* character removed, no line shortened, no line added or dropped) and the
\* maximum line length of the document is unchanged.
C21_RawPassOnlyInserts ==
    [][(/\ variant \in {"ext", "cmd"}
        /\ Len(inflight') >= Len(inflight)
        /\ \E k \in 1..Len(inflight) :
              /\ inflight[k].kind = "pass"
              /\ inflight[k].phase = "sent"
              /\ inflight'[k] = [inflight[k] EXCEPT !.phase = "applied"]) =>
          \A d \in Docs :
              /\ Len(text'[d]) = Len(text[d])
              /\ \A j \in 1..Len(text[d]) : PaddedAtFront(text[d][j], text'[d][j])
              /\ LongestLine(text'[d]) = LongestLine(text[d])]_vars

\* C21 witness: the user has typed on the longer line of d2 and a pass has padded
\* the shorter line by two spaces
C21_Witness ==
    /\ variant \in {"ext", "cmd"}
    /\ envSteps = 1
    /\ lastOutcome = "applied"
    /\ text["d2"] = << <<" ", " ", "x">>, <<"x", "x", "x">> >>

\* C22: after a pass of part_000, the selections are as many as before the pass,
\* each selection starts and ends on the lines it started and ended on, a caret
\* (start = end) is still a caret, and a selection within one line has its start
\* column at or before its end column.
C22_RestorationShape ==
    (pVariant = "p0" /\ pPasses >= 1) =>
        /\ Len(pSel) = Len(pPrevSel)
        /\ \A k \in 1..Len(pPrevSel) :
              /\ pSel[k].start.line = pPrevSel[k].start.line
              /\ pSel[k].end.line = pPrevSel[k].end.line
              /\ (pPrevSel[k].start = pPrevSel[k].end) => (pSel[k].start = pSel[k].end)
              /\ (pSel[k].start.line = pSel[k].end.line) =>
                    (pSel[k].start.character <= pSel[k].end.character)

\* C22 witness: a pass of part_000 has applied edits and moved both ends of a
\* non-empty one-line selection whose start was past the leading whitespace
C22_Witness ==
    /\ pVariant = "p0"
    /\ pPasses = 1
    /\ pEdits # {}
    /\ \E k \in 1..Len(pPrevSel) :
          /\ pPrevSel[k].start.line = pPrevSel[k].end.line
          /\ pPrevSel[k].start.character < pPrevSel[k].end.character
          /\ pPrevSel[k].start.character > Leading(LineAt(pPrevText, pPrevSel[k].start.line))
          /\ pSel[k].start # pPrevSel[k].start
          /\ pSel[k].end # pPrevSel[k].end

====
